---- MODULE Spec2Model ----
(***************************************************************************)
(* A model of the local-memory service: the bag policy store               *)
(* (src/src/bags/service.ts), the memory store (src/src/memory/store.ts)   *)
(* and the recall engine (src/src/memory/recall.ts) over one SQLite        *)
(* database with foreign keys enforced (src/src/db/client.ts).             *)
(*                                                                         *)
(* The service is one single-threaded process: a handler runs without      *)
(* interruption until it reaches an `await`, so every action below is the  *)
(* code of one handler between two suspension points.  The only `await`    *)
(* of the handlers is the call of createEmbedding.                         *)
(*                                                                         *)
(* A string is a sequence of tokens; the token WS stands for one           *)
(* whitespace character and every other token for a run of characters      *)
(* that holds no whitespace.  An optional value is a set with at most one  *)
(* element: None is `undefined`, Some(v) a supplied v.  A nullable value   *)
(* is encoded the same way, Null being SQL NULL or JavaScript null.        *)
(* Real numbers are kept in thousandths (importanceWeight 0.35 is 350).    *)
(***************************************************************************)
EXTENDS Integers, Sequences, FiniteSets, TLC

\* Bounds of the model.
MaxCalls == 3
MaxClock == 1
MaxIds == 2

VARIABLES
  bags,      \* table bags: name -> policy row
  memories,  \* table memories: id -> memory row
  vectors,   \* table memory_vectors: memory_id -> vector row
  clock,     \* the time nowIso() returned last
  nextId,    \* the id the next randomUUID() call returns
  started,   \* the number of calls made so far
  inflight,  \* the calls suspended on createEmbedding: call number -> frame
  last       \* the call that returned or threw most recently, and its outcome

dbVars == <<bags, memories, vectors>>
vars == <<bags, memories, vectors, clock, nextId, started, inflight, last>>

----------------------------------------------------------------------------
\* Values

WS == " "
None == {}
Null == {}
Some(v) == {v}
IsSome(o) == o # {}
Get(o) == CHOOSE v \in o : TRUE
\* JavaScript's `a ?? b` on an optional a.
OrElse(o, d) == IF o = {} THEN d ELSE CHOOSE v \in o : TRUE

Max(a, b) == IF a >= b THEN a ELSE b
Min(a, b) == IF a <= b THEN a ELSE b

RECURSIVE TrimStart(_)
TrimStart(s) ==
  IF s = <<>> THEN s
  ELSE IF Head(s) = WS THEN TrimStart(Tail(s)) ELSE s

RECURSIVE TrimEnd(_)
TrimEnd(s) ==
  IF s = <<>> THEN s
  ELSE IF s[Len(s)] = WS THEN TrimEnd(SubSeq(s, 1, Len(s) - 1)) ELSE s

\* String.prototype.trim
Trim(s) == TrimEnd(TrimStart(s))

\* tags.map((tag) => tag.trim()).filter(Boolean)
RECURSIVE TrimTags(_)
TrimTags(tags) ==
  IF tags = <<>> THEN <<>>
  ELSE IF Trim(Head(tags)) = <<>> THEN TrimTags(Tail(tags))
       ELSE <<Trim(Head(tags))>> \o TrimTags(Tail(tags))

Range(s) == {s[i] : i \in DOMAIN s}

\* [...new Set(xs)]: the first occurrence of each element, in order.
RECURSIVE Dedupe(_)
Dedupe(xs) ==
  IF xs = <<>> THEN <<>>
  ELSE LET front == Dedupe(SubSeq(xs, 1, Len(xs) - 1))
           x == xs[Len(xs)]
       IN IF x \in Range(front) THEN front ELSE Append(front, x)

RECURSIVE SelectKinds(_, _)
SelectKinds(xs, ok) ==
  IF xs = <<>> THEN <<>>
  ELSE IF Head(xs) \in ok THEN <<Head(xs)>> \o SelectKinds(Tail(xs), ok)
       ELSE SelectKinds(Tail(xs), ok)

----------------------------------------------------------------------------
\* Bag policy store

KINDS == {"summary", "preference", "constraint", "decision", "fact", "note"}
SUPPORTED_KINDS == {"summary", "preference", "constraint", "decision", "fact", "note"}
PROTECTED_BAGS == {<<"session-summaries">>, <<"coding-style">>, <<"life-preferences">>}

normalizeKinds(input) == Dedupe(SelectKinds(input, KINDS))

\* Faulty variant: the value is taken as it is.
clampNumberUnclamped(value, fallback, min, max) ==
  IF value = None THEN fallback ELSE Get(value)

\* clampNumber with an optional value: a missing value takes the fallback
\* unclamped.
clampNumber(value, fallback, min, max) ==
  IF value = None THEN fallback ELSE Max(min, Min(max, Get(value)))

getBagPolicy(bag) == IF bag \in DOMAIN bags THEN Some(bags[bag]) ELSE None

\* The three rows db/migrate.ts inserts into the empty schema.
SeedBag(name, description, topK, halfLife, weight, kinds) ==
  [name |-> name, description |-> Some(description), defaultTopK |-> topK,
   recencyHalfLifeDays |-> halfLife, importanceWeight |-> weight,
   allowedKinds |-> kinds, createdAt |-> 0, updatedAt |-> 0]

defaultBags ==
  LET s == SeedBag(<<"session-summaries">>, "Session-level takeaways and brief summaries.",
                   8, 14, 400, <<"summary", "decision", "note">>)
      c == SeedBag(<<"coding-style">>,
                   "User preferences for code style and implementation choices.",
                   8, 120, 450, <<"preference", "constraint", "fact", "note">>)
      l == SeedBag(<<"life-preferences">>, "Personal preferences and non-technical context.",
                   6, 180, 500, <<"preference", "fact", "note">>)
  IN (s.name :> s) @@ (c.name :> c) @@ (l.name :> l)


----------------------------------------------------------------------------
\* Embedding provider (src/unnamed/part_003) and vector norm

\* The vector the provider returns for a text: a fixed function of the text,
\* every vector of the same dimension.
Embed(text) ==
  IF text = <<>> THEN <<0, 0>>
  ELSE IF Head(text) = "a" THEN <<3, 4>>
  ELSE IF Head(text) = "b" THEN <<4, 3>>
  ELSE <<5, 0>>

embeddingModel == "nomic-embed-text"

\* Faulty variant: an embedding provider that takes the empty text.
createEmbeddingThrowsNever(text) == FALSE

\* createEmbedding throws before it reaches the provider when the text is
\* empty after trimming.
createEmbeddingThrows(text) == Trim(text) = <<>>

RECURSIVE SumSquares(_)
SumSquares(values) ==
  IF values = <<>> THEN 0 ELSE Head(values) * Head(values) + SumSquares(Tail(values))

\* Math.sqrt on the sums this model produces: the largest r with r * r <= n,
\* which is the exact root of a perfect square.
Sqrt(n) == CHOOSE r \in 0..n : r * r <= n /\ (r + 1) * (r + 1) > n

vectorNorm(values) == Sqrt(SumSquares(values))

----------------------------------------------------------------------------
\* Calls

\* The outcome of a call that threw; embed counts its calls of createEmbedding.
Failure(n, op, in, err, embed) ==
  [n |-> n, op |-> op, in |-> in, ok |-> FALSE, err |-> err, embed |-> embed]

Without(f, ks) == [k \in DOMAIN f \ ks |-> f[k]]

\* The memories of a bag.
MemoriesOf(name) == {i \in DOMAIN memories : memories[i].bag = name}

----------------------------------------------------------------------------
\* Memory store: storeMemory

sanitizeInput(input) ==
  [bag |-> Trim(input.bag),
   kind |-> input.kind,
   content |-> Trim(input.content),
   tags |-> TrimTags(OrElse(input.tags, <<>>)),
   importance |-> Max(1, Min(5, OrElse(input.importance, 3))),
   source |-> OrElse(input.source, {}),
   expiresAt |-> OrElse(input.expiresAt, Null)]

\* Faulty variant: storeMemory without the check of the bag's allowedKinds.
storeRejectionNoPolicy(sanitized) ==
  IF sanitized.bag = <<>> THEN "bag is required"
  ELSE IF sanitized.content = <<>> THEN "content is required"
  ELSE IF sanitized.kind \notin SUPPORTED_KINDS THEN "unsupported kind"
  ELSE IF getBagPolicy(sanitized.bag) = None THEN "unknown bag"
  ELSE ""

\* The error storeMemory throws before it calls createEmbedding, "" if none.
storeRejection(sanitized) ==
  IF sanitized.bag = <<>> THEN "bag is required"
  ELSE IF sanitized.content = <<>> THEN "content is required"
  ELSE IF sanitized.kind \notin SUPPORTED_KINDS THEN "unsupported kind"
  ELSE IF getBagPolicy(sanitized.bag) = None THEN "unknown bag"
  ELSE IF /\ Len(Get(getBagPolicy(sanitized.bag)).allowedKinds) > 0
          /\ sanitized.kind \notin Range(Get(getBagPolicy(sanitized.bag)).allowedKinds)
       THEN "kind is not allowed in bag"
  ELSE ""

\* parseRecord: the MemoryRecord of a row of table memories.
parseRecord(row) ==
  [id |-> row.id, bag |-> row.bag, kind |-> row.kind, content |-> row.content,
   tags |-> row.tags, importance |-> row.importance, source |-> row.source,
   createdAt |-> row.createdAt, updatedAt |-> row.updatedAt,
   lastAccessedAt |-> row.lastAccessedAt, expiresAt |-> row.expiresAt]

MemoryRow(id, sanitized, now) ==
  [id |-> id, bag |-> sanitized.bag, kind |-> sanitized.kind,
   content |-> sanitized.content, tags |-> sanitized.tags,
   importance |-> sanitized.importance, source |-> sanitized.source,
   createdAt |-> now, updatedAt |-> now, lastAccessedAt |-> Null,
   expiresAt |-> sanitized.expiresAt]

VectorRow(embedding, now) ==
  [embedding |-> embedding, model |-> embeddingModel, dim |-> Len(embedding),
   norm |-> vectorNorm(embedding), createdAt |-> now, updatedAt |-> now]

\* storeMemory up to its await: sanitize, validate, check the bag's policy,
\* send the content to the embedding provider.
StoreBegin(input) ==
  LET n == started + 1
      sanitized == sanitizeInput(input)
      err == storeRejection(sanitized)
  IN /\ started < MaxCalls
     /\ started' = n
     /\ IF err # ""
        THEN /\ last' = Failure(n, "store", input, err, 0)
             /\ inflight' = inflight
        ELSE /\ inflight' = inflight @@
                  (n :> [op |-> "store", in |-> input, sanitized |-> sanitized, embed |-> 1])
             /\ last' = last
     /\ UNCHANGED <<bags, memories, vectors, clock, nextId>>

\* Faulty variant: a connection without PRAGMA foreign_keys = ON, whose
\* insert does not look for the bag.
StoreFinishNoForeignKey(n, now) ==
  /\ n \in DOMAIN inflight
  /\ inflight[n].op = "store"
  /\ clock' = now
  /\ LET sanitized == inflight[n].sanitized
         embedding == Embed(Trim(sanitized.content))
         id == nextId
         row == MemoryRow(id, sanitized, now)
     IN /\ nextId' = nextId + 1
        /\ inflight' = Without(inflight, {n})
        /\ memories' = memories @@ (id :> row)
        /\ vectors' = vectors @@ (id :> VectorRow(embedding, now))
        /\ last' = [n |-> n, op |-> "store", in |-> inflight[n].in, ok |-> TRUE,
                    embed |-> inflight[n].embed, memory |-> parseRecord(row)]
        /\ UNCHANGED <<bags, started>>

\* storeMemory after its await: the insert transaction and the read back.
\* The foreign key memories.bag -> bags.name makes the transaction fail when
\* the bag is gone.
StoreFinish(n, now) ==
  /\ n \in DOMAIN inflight
  /\ inflight[n].op = "store"
  /\ clock' = now
  /\ LET sanitized == inflight[n].sanitized
         embedding == Embed(Trim(sanitized.content))
         id == nextId
         row == MemoryRow(id, sanitized, now)
     IN /\ nextId' = nextId + 1
        /\ inflight' = Without(inflight, {n})
        /\ IF sanitized.bag \in DOMAIN bags
           THEN /\ memories' = memories @@ (id :> row)
                /\ vectors' = vectors @@ (id :> VectorRow(embedding, now))
                /\ last' = [n |-> n, op |-> "store", in |-> inflight[n].in, ok |-> TRUE,
                            embed |-> inflight[n].embed, memory |-> parseRecord(row)]
           ELSE /\ UNCHANGED <<memories, vectors>>
                /\ last' = Failure(n, "store", inflight[n].in, "FOREIGN KEY constraint failed",
                                inflight[n].embed)
        /\ UNCHANGED <<bags, started>>

\* Faulty variant: a schema without ON DELETE CASCADE.
deleteMemoryNoCascade(id) == vectors

\* FOREIGN KEY (memory_id) REFERENCES memories(id) ON DELETE CASCADE
deleteMemoryCascade(id) == Without(vectors, {id})

\* result.changes of the DELETE, and the flag deleteMemory makes of it.
deleteMemoryChanges(id) == IF id \in DOMAIN memories THEN 1 ELSE 0
\* Faulty variant: changes >= 0.
deleteMemoryDeletedAlways(changes) == changes >= 0

deleteMemoryDeleted(changes) == changes > 0

\* deleteMemory: DELETE FROM memories WHERE id = ?, which cascades to the
\* vector row.
DeleteMemory(id) ==
  LET n == started + 1
  IN /\ started < MaxCalls
     /\ started' = n
     /\ memories' = Without(memories, {id})
     /\ vectors' = deleteMemoryCascade(id)
     /\ last' = [n |-> n, op |-> "deleteMemory", in |-> id, ok |-> TRUE,
                 deleted |-> deleteMemoryDeleted(deleteMemoryChanges(id))]
     /\ UNCHANGED <<bags, clock, nextId, inflight>>

----------------------------------------------------------------------------
\* Memory store: updateMemory

\* The values updateMemory computes from its input and the row it read.
NextValues(input, existing, now) ==
  [id |-> input.id,
   supplied |-> input.content # None,
   content |-> IF input.content = None THEN existing.content ELSE Trim(Get(input.content)),
   tags |-> IF input.tags = None THEN existing.tags ELSE TrimTags(Get(input.tags)),
   importance |-> Max(1, Min(5, OrElse(input.importance, existing.importance))),
   source |-> OrElse(input.source, existing.source),
   expiresAt |-> IF input.expiresAt = None THEN existing.expiresAt ELSE Get(input.expiresAt),
   now |-> now]

\* Faulty variant: updated_at is written only when the content is.
UpdateMemoriesRowStampOnContent(next) ==
  IF next.id \in DOMAIN memories
  THEN [memories EXCEPT ![next.id] =
          [@ EXCEPT !.content = next.content, !.tags = next.tags,
                    !.importance = next.importance, !.source = next.source,
                    !.updatedAt = IF next.supplied THEN next.now ELSE @,
                    !.expiresAt = next.expiresAt]]
  ELSE memories

\* UPDATE memories SET ... WHERE id = ?: no row, no change.
UpdateMemoriesRow(next) ==
  IF next.id \in DOMAIN memories
  THEN [memories EXCEPT ![next.id] =
          [@ EXCEPT !.content = next.content, !.tags = next.tags,
                    !.importance = next.importance, !.source = next.source,
                    !.updatedAt = next.now, !.expiresAt = next.expiresAt]]
  ELSE memories

\* Faulty variant: the update never overwrites the vector row.
UpdateVectorsRowStale(next, embedding) == vectors

\* Faulty variant: the vector written is the embedding of the content the
\* row holds when the transaction begins, not of the content being written.
UpdateVectorsRowOfOldContent(next, embedding) ==
  IF next.supplied /\ next.id \in DOMAIN vectors
  THEN [vectors EXCEPT ![next.id] =
          [@ EXCEPT !.embedding = Embed(memories[next.id].content),
                    !.model = embeddingModel, !.dim = Len(embedding),
                    !.norm = vectorNorm(embedding), !.updatedAt = next.now]]
  ELSE vectors

\* Faulty variant: INSERT OR REPLACE, which writes a vector row for an id
\* that has none.
UpdateVectorsRowOrInsert(next, embedding) ==
  IF ~next.supplied THEN vectors
  ELSE IF next.id \in DOMAIN vectors
  THEN [vectors EXCEPT ![next.id] =
          [@ EXCEPT !.embedding = embedding, !.model = embeddingModel,
                    !.dim = Len(embedding), !.norm = vectorNorm(embedding),
                    !.updatedAt = next.now]]
  ELSE vectors @@ (next.id :> VectorRow(embedding, next.now))

\* UPDATE memory_vectors SET ... WHERE memory_id = ?, run when the update
\* has an embedding.
UpdateVectorsRow(next, embedding) ==
  IF next.supplied /\ next.id \in DOMAIN vectors
  THEN [vectors EXCEPT ![next.id] =
          [@ EXCEPT !.embedding = embedding, !.model = embeddingModel,
                    !.dim = Len(embedding), !.norm = vectorNorm(embedding),
                    !.updatedAt = next.now]]
  ELSE vectors

\* The update transaction and the read back that follows it.
UpdateCommit(n, input, next, embed) ==
  /\ memories' = UpdateMemoriesRow(next)
  /\ vectors' = UpdateVectorsRow(next, Embed(Trim(next.content)))
  /\ last' = IF next.id \in DOMAIN memories
             THEN [n |-> n, op |-> "update", in |-> input, ok |-> TRUE, embed |-> embed,
                   memory |-> parseRecord(UpdateMemoriesRow(next)[next.id])]
             ELSE Failure(n, "update", input, "memory not found after update", embed)

\* updateMemory up to its await, which it reaches only when the input has
\* content; otherwise the whole update.
UpdateBegin(input, now) ==
  LET n == started + 1
      next == NextValues(input, memories[input.id], now)
  IN /\ started < MaxCalls
     /\ started' = n
     /\ UNCHANGED <<bags, nextId>>
     /\ clock' = IF input.id \in DOMAIN memories THEN now ELSE clock
     /\ IF input.id \notin DOMAIN memories
        THEN /\ last' = Failure(n, "update", input, "memory not found", 0)
             /\ UNCHANGED <<memories, vectors, inflight>>
        ELSE IF input.content = None
        THEN /\ UpdateCommit(n, input, next, 0)
             /\ inflight' = inflight
        ELSE IF createEmbeddingThrows(next.content)
        THEN /\ last' = Failure(n, "update", input, "Cannot embed empty text.", 1)
             /\ UNCHANGED <<memories, vectors, inflight>>
        ELSE /\ inflight' = inflight @@
                  (n :> [op |-> "update", in |-> input, next |-> next, embed |-> 1])
             /\ UNCHANGED <<memories, vectors, last>>

\* updateMemory after its await.
UpdateFinish(n) ==
  /\ n \in DOMAIN inflight
  /\ inflight[n].op = "update"
  /\ UpdateCommit(n, inflight[n].in, inflight[n].next, inflight[n].embed)
  /\ inflight' = Without(inflight, {n})
  /\ UNCHANGED <<bags, clock, nextId, started>>

----------------------------------------------------------------------------
\* Bag policy store: upsertBag, deleteBag

upsertBagNext(input, now) ==
  LET existing == getBagPolicy(input.name)
      has == existing # None
      old == Get(existing)
  IN [name |-> input.name,
      description |-> IF input.description # None /\ Get(input.description) # Null
                      THEN Get(input.description)
                      ELSE IF has THEN old.description ELSE Null,
      defaultTopK |-> clampNumber(input.defaultTopK,
                                  IF has THEN old.defaultTopK ELSE 8, 1, 100),
      recencyHalfLifeDays |-> clampNumber(input.recencyHalfLifeDays,
                                  IF has THEN old.recencyHalfLifeDays ELSE 30, 1, 3650),
      importanceWeight |-> clampNumber(input.importanceWeight,
                                  IF has THEN old.importanceWeight ELSE 350, 0, 2000),
      allowedKinds |-> normalizeKinds(IF input.allowedKinds # None THEN Get(input.allowedKinds)
                                      ELSE IF has THEN old.allowedKinds ELSE <<>>),
      createdAt |-> IF has THEN old.createdAt ELSE now,
      updatedAt |-> now]

\* INSERT ... ON CONFLICT(name) DO UPDATE SET every column but name and
\* created_at.
upsertBagRow(next) ==
  IF next.name \in DOMAIN bags
  THEN [next EXCEPT !.createdAt = bags[next.name].createdAt]
  ELSE next

\* Faulty variant: the conflict clause also sets created_at, to the time of
\* the call.
UpsertBagCreatedAtOverwritten(input, now) ==
  LET n == started + 1
      row == [upsertBagNext(input, now) EXCEPT !.createdAt = now]
  IN /\ started < MaxCalls
     /\ started' = n
     /\ clock' = now
     /\ bags' = [b \in DOMAIN bags \cup {input.name} |->
                   IF b = input.name THEN row ELSE bags[b]]
     /\ last' = [n |-> n, op |-> "upsertBag", in |-> input, ok |-> TRUE, bag |-> row]
     /\ UNCHANGED <<memories, vectors, nextId, inflight>>

UpsertBag(input, now) ==
  LET n == started + 1
      row == upsertBagRow(upsertBagNext(input, now))
  IN /\ started < MaxCalls
     /\ started' = n
     /\ clock' = now
     /\ bags' = [b \in DOMAIN bags \cup {input.name} |->
                   IF b = input.name THEN row ELSE bags[b]]
     /\ last' = [n |-> n, op |-> "upsertBag", in |-> input, ok |-> TRUE, bag |-> row]
     /\ UNCHANGED <<memories, vectors, nextId, inflight>>

\* Faulty variant: the protected check made before the look-up of the bag.
deleteBagRejectionProtectedFirst(name, input) ==
  IF name = <<>> THEN "name is required"
  ELSE IF name \in PROTECTED_BAGS /\ ~input.allowSystem THEN "bag is protected"
  ELSE IF getBagPolicy(name) = None THEN ""
  ELSE IF Cardinality(MemoriesOf(name)) > 0 /\ ~input.force THEN "bag has memories"
  ELSE ""

\* The error deleteBag throws, "" if it throws none.
deleteBagRejection(name, input) ==
  IF name = <<>> THEN "name is required"
  ELSE IF getBagPolicy(name) = None THEN ""
  ELSE IF name \in PROTECTED_BAGS /\ ~input.allowSystem THEN "bag is protected"
  ELSE IF Cardinality(MemoriesOf(name)) > 0 /\ ~input.force THEN "bag has memories"
  ELSE ""

\* Faulty variant: runDelete without its DELETE FROM memories.
deleteBagMemoriesKept(bagName, shouldDeleteMemories) == memories

\* runDelete's DELETE FROM memories WHERE bag = ?
deleteBagMemories(bagName, shouldDeleteMemories) ==
  IF shouldDeleteMemories THEN Without(memories, MemoriesOf(bagName)) ELSE memories

DeleteBag(input) ==
  LET n == started + 1
      name == Trim(input.name)
      err == deleteBagRejection(name, input)
      memoryCount == Cardinality(MemoriesOf(name))
  IN /\ started < MaxCalls
     /\ started' = n
     /\ UNCHANGED <<clock, nextId, inflight>>
     /\ IF err # ""
        THEN /\ last' = Failure(n, "deleteBag", input, err, 0)
             /\ UNCHANGED <<bags, memories, vectors>>
        ELSE IF getBagPolicy(name) = None
        THEN /\ last' = [n |-> n, op |-> "deleteBag", in |-> input, ok |-> TRUE,
                         deleted |-> FALSE, name |-> name, deletedMemories |-> 0]
             /\ UNCHANGED <<bags, memories, vectors>>
        ELSE /\ memories' = deleteBagMemories(name, memoryCount > 0)
             /\ vectors' = Without(vectors, DOMAIN memories \ DOMAIN memories')
             /\ bags' = Without(bags, {name})
             /\ last' = [n |-> n, op |-> "deleteBag", in |-> input, ok |-> TRUE,
                         deleted |-> TRUE, name |-> name, deletedMemories |-> memoryCount]


----------------------------------------------------------------------------
\* Scoring (src/src/memory/scoring.ts).  Scores are in millionths.

RECURSIVE Dot(_, _)
Dot(a, b) == IF a = <<>> THEN 0 ELSE Head(a) * Head(b) + Dot(Tail(a), Tail(b))

\* Faulty variant of cosineSimilarity: the norm given by the caller is
\* ignored and the norm of b is always computed.
cosineSimilarityNormIgnored(a, b, bNorm) ==
  IF Len(a) # Len(b) THEN -1000000
  ELSE LET aNorm == vectorNorm(a)
           rightNorm == vectorNorm(b)
       IN IF aNorm = 0 \/ rightNorm = 0 THEN 0
          ELSE (Dot(a, b) * 1000000) \div (aNorm * rightNorm)

\* cosineSimilarity(a, b, bNorm), bNorm optional; -1 is -1000000.
cosineSimilarity(a, b, bNorm) ==
  IF Len(a) # Len(b) THEN -1000000
  ELSE LET aNorm == vectorNorm(a)
           rightNorm == OrElse(bNorm, vectorNorm(b))
       IN IF aNorm = 0 \/ rightNorm = 0 THEN 0
          ELSE (Dot(a, b) * 1000000) \div (aNorm * rightNorm)

RECURSIVE Halve(_, _)
Halve(x, k) == IF k = 0 \/ x = 0 THEN x ELSE Halve(x \div 2, k - 1)

\* A timestamp text is modelled by the instant it denotes, counted in units
\* of the clock; NaT is the one text of the model that Date cannot parse
\* (getTime() yields NaN for it).
NaT == -1

\* 0.2 * 0.5 ^ (q / 4) for q = 0, 1, 2, 3, in millionths.
QuarterPowers == <<200000, 168179, 141421, 118921>>

\* 0.5 ^ (ageMs / halfLifeMs) * 0.2 for an age that is a whole number of
\* quarters of the half-life: the quarter power, then one halving for every
\* whole half-life.  Values are kept in millionths, rounded down.
Decay(ageDays, halfLifeDays) ==
  LET quarters == (4 * ageDays) \div halfLifeDays
  IN Halve(QuarterPowers[(quarters % 4) + 1], quarters \div 4)

\* Faulty variant of recencyBoost: the half-life is tested before the age.
recencyBoostHalfLifeFirst(createdAt, halfLifeDays, now) ==
  IF createdAt = NaT THEN 0
  ELSE LET ageDays == (now - createdAt) * 2520
       IN IF halfLifeDays <= 0 THEN 0
          ELSE IF ageDays <= 0 THEN 150000
          ELSE Decay(ageDays, halfLifeDays)

\* recencyBoost(createdAtIso, halfLifeDays) at time now.  One unit of the
\* clock is 2520 days, so that the age of a memory is a whole number of
\* half-lives for the half-lives of the bag policies of the model (1, 14,
\* 30, 120, 180, 1260 days) and a whole number of quarters for the longer
\* half-lives the function is applied to on its own (2520, 5040, 10080).
recencyBoost(createdAt, halfLifeDays, now) ==
  IF createdAt = NaT THEN 0
  ELSE LET ageDays == (now - createdAt) * 2520
       IN IF ageDays <= 0 THEN 150000
          ELSE IF halfLifeDays <= 0 THEN 0
          ELSE Decay(ageDays, halfLifeDays)

\* importanceBoost(importance, policy): the weight is in thousandths.
importanceBoost(importance, policy) ==
  (Max(1, Min(5, importance)) * policy.importanceWeight * 1000) \div 5

\* String.prototype.toLowerCase on the tokens of the model.
LowerToken(t) == IF t = "X" THEN "x" ELSE IF t = "Y" THEN "y" ELSE t
toLowerCase(s) == [i \in DOMAIN s |-> LowerToken(s[i])]

\* The entries of queryTags, repetitions counted, that memoryTags holds.
RECURSIVE Overlap(_, _)
Overlap(queryTags, memorySet) ==
  IF queryTags = <<>> THEN 0
  ELSE (IF toLowerCase(Head(queryTags)) \in memorySet THEN 1 ELSE 0)
       + Overlap(Tail(queryTags), memorySet)

tagBoost(queryTags, memoryTags) ==
  IF Len(queryTags) = 0 \/ Len(memoryTags) = 0 THEN 0
  ELSE LET memorySet == {toLowerCase(memoryTags[i]) : i \in DOMAIN memoryTags}
           overlap == Overlap(queryTags, memorySet)
       IN IF overlap = 0 THEN 0 ELSE Min(200000, overlap * 60000)

----------------------------------------------------------------------------
\* Recall engine (src/src/memory/recall.ts)

defaultCandidateLimit == 600

\* parseTags
parseTags(value) == TrimTags(OrElse(value, <<>>))

\* `input.bag ? ... : ...`: a bag that is given and not the empty string.
BagGiven(input) == input.bag # None /\ Get(input.bag) # <<>>

\* Faulty variant: the default is 8 whatever the bag's policy says.
recallTopKWithoutPolicy(input) == Max(1, Min(100, OrElse(input.topK, 8)))

recallTopK(input) ==
  LET bagPolicy == IF BagGiven(input) THEN getBagPolicy(Get(input.bag)) ELSE None
  IN Max(1, Min(100, IF input.topK # None THEN Get(input.topK)
                     ELSE IF bagPolicy # None THEN Get(bagPolicy).defaultTopK
                     ELSE 8))

recallCandidateLimit(input) ==
  Max(recallTopK(input), Min(5000, OrElse(input.candidateLimit, defaultCandidateLimit)))

\* Faulty variant: a WHERE clause without the condition on expires_at.
EligibleExpiredToo(input, now) ==
  {i \in DOMAIN memories \cap DOMAIN vectors :
     /\ BagGiven(input) => memories[i].bag = Get(input.bag)
     /\ (input.kinds # None /\ Len(Get(input.kinds)) > 0)
          => memories[i].kind \in Range(Get(input.kinds))}

\* The WHERE clause of buildFilterQuery, on the join with memory_vectors.
Eligible(input, now) ==
  {i \in DOMAIN memories \cap DOMAIN vectors :
     /\ memories[i].expiresAt = Null \/ Get(memories[i].expiresAt) > now
     /\ BagGiven(input) => memories[i].bag = Get(input.bag)
     /\ (input.kinds # None /\ Len(Get(input.kinds)) > 0)
          => memories[i].kind \in Range(Get(input.kinds))}

\* ORDER BY m.created_at DESC: every order of the rows that is not
\* increasing in created_at; SQL leaves the order of equal keys open.
CandidateOrders(ids) ==
  {o \in [1..Cardinality(ids) -> ids] :
     /\ \A i, j \in DOMAIN o : i # j => o[i] # o[j]
     /\ \A i, j \in DOMAIN o : i < j => memories[o[i]].createdAt >= memories[o[j]].createdAt}

Take(s, k) == SubSeq(s, 1, Min(k, Len(s)))

\* Faulty variant: no tag filter.
TagMatchAlways(queryTags, id) == TRUE

\* The hard tag filter of recallMemories.
TagMatch(queryTags, id) ==
  \/ Len(queryTags) = 0
  \/ \E q \in Range(queryTags), m \in Range(parseTags(Some(memories[id].tags))) :
       toLowerCase(m) = toLowerCase(q)

RECURSIVE FilterRows(_, _)
FilterRows(rows, queryTags) ==
  IF rows = <<>> THEN <<>>
  ELSE IF TagMatch(queryTags, Head(rows))
       THEN <<Head(rows)>> \o FilterRows(Tail(rows), queryTags)
       ELSE FilterRows(Tail(rows), queryTags)

\* Faulty variant: every memory is scored with the hardcoded policy.
ScoringPolicyHardcoded(memory) ==
  [name |-> memory.bag, description |-> Null, defaultTopK |-> 8,
   recencyHalfLifeDays |-> 30, importanceWeight |-> 350, allowedKinds |-> <<>>,
   createdAt |-> memory.createdAt, updatedAt |-> memory.updatedAt]

\* The policy recall scores a memory with: its own bag's, or the hardcoded one.
ScoringPolicy(memory) ==
  IF getBagPolicy(memory.bag) # None THEN Get(getBagPolicy(memory.bag))
  ELSE [name |-> memory.bag, description |-> Null, defaultTopK |-> 8,
        recencyHalfLifeDays |-> 30, importanceWeight |-> 350, allowedKinds |-> <<>>,
        createdAt |-> memory.createdAt, updatedAt |-> memory.updatedAt]

Scored(id, queryEmbedding, queryTags, now) ==
  LET memory == parseRecord(memories[id])
      policy == ScoringPolicy(memory)
      similarity == cosineSimilarity(queryEmbedding, vectors[id].embedding,
                                     Some(vectors[id].norm))
      recency == recencyBoost(memory.createdAt, policy.recencyHalfLifeDays, now)
      importance == importanceBoost(memory.importance, policy)
      tag == tagBoost(queryTags, memory.tags)
  IN [memory |-> memory,
      score |-> similarity + recency + importance + tag,
      scoreBreakdown |-> [similarity |-> similarity, recencyBoost |-> recency,
                          importanceBoost |-> importance, tagBoost |-> tag]]

\* Faulty variant: a sort that puts the later of two equal scores first.
RECURSIVE InsertByScoreTiesReversed(_, _)
InsertByScoreTiesReversed(sorted, item) ==
  IF sorted = <<>> THEN <<item>>
  ELSE IF Head(sorted).score > item.score
       THEN <<Head(sorted)>> \o InsertByScoreTiesReversed(Tail(sorted), item)
       ELSE <<item>> \o sorted

\* Array.prototype.sort((a, b) => b.score - a.score), which is stable.
RECURSIVE InsertByScore(_, _)
InsertByScore(sorted, item) ==
  IF sorted = <<>> THEN <<item>>
  ELSE IF Head(sorted).score >= item.score
       THEN <<Head(sorted)>> \o InsertByScore(Tail(sorted), item)
       ELSE <<item>> \o sorted

RECURSIVE SortByScore(_)
SortByScore(items) ==
  IF items = <<>> THEN <<>>
  ELSE InsertByScore(SortByScore(SubSeq(items, 1, Len(items) - 1)), items[Len(items)])

\* Faulty variant: the tag filter runs before the rows are cut to the limit.
RankedTagsBeforeLimit(input, rows, now) ==
  LET queryTags == parseTags(input.tags)
      queryEmbedding == Embed(Trim(input.query))
      filteredRows == Take(FilterRows(rows, queryTags), recallCandidateLimit(input))
      scored == [i \in DOMAIN filteredRows |->
                   Scored(filteredRows[i], queryEmbedding, queryTags, now)]
  IN Take(SortByScore(scored), recallTopK(input))

\* The ranked list of a recall whose query returned the rows in order `rows`.
Ranked(input, rows, now) ==
  LET queryTags == parseTags(input.tags)
      queryEmbedding == Embed(Trim(input.query))
      filteredRows == FilterRows(Take(rows, recallCandidateLimit(input)), queryTags)
      scored == [i \in DOMAIN filteredRows |->
                   Scored(filteredRows[i], queryEmbedding, queryTags, now)]
  IN Take(SortByScore(scored), recallTopK(input))

\* recallMemories up to its await.
RecallBegin(input) ==
  LET n == started + 1
  IN /\ started < MaxCalls
     /\ started' = n
     /\ IF Trim(input.query) = <<>>
        THEN /\ last' = Failure(n, "recall", input, "query is required", 0)
             /\ inflight' = inflight
        ELSE /\ inflight' = inflight @@ (n :> [op |-> "recall", in |-> input, embed |-> 1])
             /\ last' = last
     /\ UNCHANGED <<bags, memories, vectors, clock, nextId>>

\* Faulty variant: an UPDATE without its WHERE clause.
MarkAccessedEveryRow(ranked, now) ==
  [i \in DOMAIN memories |->
     IF ranked # <<>> THEN [memories[i] EXCEPT !.lastAccessedAt = Some(now)]
     ELSE memories[i]]

\* UPDATE memories SET last_accessed_at = ? WHERE id = ?, for every item.
MarkAccessed(ranked, now) ==
  [i \in DOMAIN memories |->
     IF \E k \in DOMAIN ranked : ranked[k].memory.id = i
     THEN [memories[i] EXCEPT !.lastAccessedAt = Some(now)]
     ELSE memories[i]]

\* recallMemories after its await: select, filter, score, rank, stamp.  The
\* clock readings of this one synchronous stretch (the expiry bound of the
\* query, Date.now() of recencyBoost, the stamp) are one instant.  The
\* stamps are single UPDATE statements outside any transaction and inside no
\* try: when the statement of item number failAt throws (SQLITE_BUSY, a full
\* disk), the stamps before it stay and the call throws; failAt = 0 is the
\* run in which no statement throws.  The outcome keeps the handler's topK
\* and the rows its query returned.
RecallFinish(n, now) ==
  /\ n \in DOMAIN inflight
  /\ inflight[n].op = "recall"
  /\ clock' = now
  /\ \E rows \in CandidateOrders(Eligible(inflight[n].in, now)) :
       LET input == inflight[n].in
           ranked == Ranked(input, rows, now)
       IN \E failAt \in 0..Len(ranked) :
            IF failAt = 0
            THEN /\ memories' = MarkAccessed(ranked, now)
                 /\ last' = [n |-> n, op |-> "recall", in |-> input, ok |-> TRUE,
                             embed |-> inflight[n].embed, ranked |-> ranked,
                             topK |-> recallTopK(input),
                             rows |-> Take(rows, recallCandidateLimit(input))]
            ELSE /\ memories' = MarkAccessed(Take(ranked, failAt - 1), now)
                 /\ last' = [n |-> n, op |-> "recall", in |-> input, ok |-> FALSE,
                             err |-> "database error", embed |-> inflight[n].embed,
                             ranked |-> ranked, failAt |-> failAt]
  /\ inflight' = Without(inflight, {n})
  /\ UNCHANGED <<bags, vectors, nextId, started>>

----------------------------------------------------------------------------
\* Failure of the embedding provider

\* Faulty variant: the handler swallows the failure of an update's embedding and
\* writes the record without it.
EmbedFailWritesRecord(n) ==
  /\ n \in DOMAIN inflight
  /\ inflight' = Without(inflight, {n})
  /\ last' = Failure(n, inflight[n].op, inflight[n].in, "embedding failed", inflight[n].embed)
  /\ memories' = IF inflight[n].op = "update" THEN UpdateMemoriesRow(inflight[n].next)
                 ELSE memories
  /\ UNCHANGED <<bags, vectors, clock, nextId, started>>

\* The embedding provider fails (transport error, timeout): the awaiting
\* handler throws.
EmbedFail(n) ==
  /\ n \in DOMAIN inflight
  /\ inflight' = Without(inflight, {n})
  /\ last' = Failure(n, inflight[n].op, inflight[n].in, "embedding failed", inflight[n].embed)
  /\ UNCHANGED <<bags, memories, vectors, clock, nextId, started>>

----------------------------------------------------------------------------
\* The requests of the model

CodingStyle == <<"coding-style">>
Scratch == <<"scratch">>

StoreInput(bag, kind, content, tags, importance, src, expiresAt) ==
  [bag |-> bag, kind |-> kind, content |-> content, tags |-> tags,
   importance |-> importance, source |-> src, expiresAt |-> expiresAt]

StoreInputs ==
  { StoreInput(CodingStyle, "note", <<"a">>, None, None, None, None),
    StoreInput(<<WS, "coding-style", WS>>, "fact", <<WS, "b", WS>>,
               Some(<< <<WS, "x">>, <<"x">>, <<WS>>, <<"y">> >>), Some(9),
               Some({"sessionId"}), Some(Some(1))),
    StoreInput(Scratch, "summary", <<"b">>, Some(<<>>), Some(0), None, Some(Null)),
    StoreInput(<<WS>>, "note", <<"a">>, None, None, None, None),
    StoreInput(CodingStyle, "note", <<WS, WS>>, None, None, None, None),
    StoreInput(CodingStyle, "bogus", <<"a">>, None, None, None, None),
    StoreInput(<<"nowhere">>, "note", <<"a">>, None, None, None, None),
    StoreInput(CodingStyle, "summary", <<"a">>, None, None, None, None),
    StoreInput(CodingStyle, "preference", <<"b">>, Some(<< <<"y">> >>), None, None, None) }

UpdateInput(id, content, tags, importance, src, expiresAt) ==
  [id |-> id, content |-> content, tags |-> tags, importance |-> importance,
   source |-> src, expiresAt |-> expiresAt]

\* The ids the update and delete requests of the model name.
MemoryIds == 1..MaxIds

UpdateInputs ==
  UNION { { UpdateInput(id, Some(<<WS, "b">>), None, None, None, None),
            UpdateInput(id, None, Some(<< <<"y", WS>>, <<WS>> >>), None, None, None),
            UpdateInput(id, None, None, Some(7), Some({"editor"}), Some(Some(1))),
            UpdateInput(id, None, None, None, None, None),
            UpdateInput(id, Some(<<WS>>), None, None, None, None),
            UpdateInput(id, Some(<<"a", WS>>), None, None, None, None) }
          : id \in MemoryIds }

BagInput(name, description, topK, halfLife, weight, kinds) ==
  [name |-> name, description |-> description, defaultTopK |-> topK,
   recencyHalfLifeDays |-> halfLife, importanceWeight |-> weight, allowedKinds |-> kinds]

UpsertInputs ==
  { BagInput(Scratch, None, None, None, None, None),
    BagInput(CodingStyle, Some(Some("d")), Some(0), Some(0), Some(2500),
             Some(<<"fact", "fact", "bogus">>)),
    BagInput(CodingStyle, Some(Null), Some(5), Some(1260), None, Some(<<>>)) }

DeleteBagInput(name, force, allowSystem) ==
  [name |-> name, force |-> force, allowSystem |-> allowSystem]

DeleteBagInputs ==
  {DeleteBagInput(CodingStyle, force, allowSystem) : force, allowSystem \in BOOLEAN}
    \cup {DeleteBagInput(<<WS, "scratch">>, force, FALSE) : force \in BOOLEAN}

RecallInput(query, bag, kinds, tags, topK, candidateLimit) ==
  [query |-> query, bag |-> bag, kinds |-> kinds, tags |-> tags, topK |-> topK,
   candidateLimit |-> candidateLimit]

RecallInputs ==
  { RecallInput(<<WS>>, None, None, None, None, None),
    RecallInput(<<"a">>, None, None, None, Some(0), None),
    RecallInput(<<WS, "b">>, Some(CodingStyle), Some(<<"note", "fact">>), None,
                Some(0), Some(1)),
    RecallInput(<<"a">>, Some(CodingStyle), None,
                Some(<< <<"X">>, <<WS, "x">>, <<WS>> >>), None, Some(6000)),
    RecallInput(<<"a">>, Some(<<WS, "coding-style">>), None, None, None, None),
    RecallInput(<<"a">>, None, None, Some(<< <<"y">> >>), Some(1), Some(0)) }

----------------------------------------------------------------------------
\* The service

Init ==
  /\ bags = defaultBags
  /\ memories = <<>>
  /\ vectors = <<>>
  /\ clock = 0
  /\ nextId = 1
  /\ started = 0
  /\ inflight = <<>>
  /\ last = [n |-> 0, op |-> "migrate", in |-> {}, ok |-> TRUE]

\* What nowIso() may return: the time of its last call or a later one.
Now == clock..MaxClock

Next ==
  \/ \E input \in StoreInputs : StoreBegin(input)
  \/ \E n \in DOMAIN inflight, now \in Now : StoreFinish(n, now)
  \/ \E input \in UpdateInputs, now \in Now : UpdateBegin(input, now)
  \/ \E n \in DOMAIN inflight : UpdateFinish(n)
  \/ \E n \in DOMAIN inflight : EmbedFail(n)
  \/ \E id \in MemoryIds : DeleteMemory(id)
  \/ \E input \in UpsertInputs, now \in Now : UpsertBag(input, now)
  \/ \E input \in DeleteBagInputs : DeleteBag(input)
  \/ \E input \in RecallInputs : RecallBegin(input)
  \/ \E n \in DOMAIN inflight, now \in Now : RecallFinish(n, now)

Spec == Init /\ [][Next]_vars

----------------------------------------------------------------------------
\* Steps, as the properties name them

\* The step returns from call number n (every return and every throw sets
\* last to the outcome of its call).
Returns(op) == last'.n # last.n /\ last'.op = op

\* The step starts a call; Started is that call's op and input.
Starts == started' = started + 1
Started ==
  IF started' \in DOMAIN inflight' THEN inflight'[started'] ELSE last'

\* The memory rows other than id are the same before and after the step.
OtherMemoriesSame(id) ==
  /\ DOMAIN memories' \ {id} = DOMAIN memories \ {id}
  /\ \A i \in DOMAIN memories \ {id} : memories'[i] = memories[i]

OtherVectorsSame(id) ==
  /\ DOMAIN vectors' \ {id} = DOMAIN vectors \ {id}
  /\ \A i \in DOMAIN vectors \ {id} : vectors'[i] = vectors[i]

----------------------------------------------------------------------------
\* C1: in every reachable state a memory row with id i exists if and only
\* if a vector row with memory_id i exists, whatever the interleaving of
\* store, update, deleteMemory and deleteBag.
C1_RecordIffVector == DOMAIN memories = DOMAIN vectors

\* A deleteMemory has removed one pair while another pair is still there.
C1_Witness ==
  /\ last.op = "deleteMemory" /\ last.deleted
  /\ DOMAIN memories # {}
  /\ DOMAIN vectors # {}

\* C2: when an update returns successfully, every one of content, tags,
\* importance, source and expiresAt that its input omits has in the row the
\* value it had right before the update's transaction.
C2_OmittedFieldsKept ==
  [][(Returns("update") /\ last'.ok) =>
       LET input == last'.in
           before == memories[input.id]
           after == memories'[input.id]
       IN /\ input.content = None => after.content = before.content
          /\ input.tags = None => after.tags = before.tags
          /\ input.importance = None => after.importance = before.importance
          /\ input.source = None => after.source = before.source
          /\ input.expiresAt = None => after.expiresAt = before.expiresAt]_vars

\* C3: when a store returns a record, the record's bag exists and its
\* policy's allowedKinds is empty or lists the record's kind.
C3_KindAllowedAtCommit ==
  (last.op = "store" /\ last.ok) =>
     /\ last.memory.bag \in DOMAIN bags
     /\ \/ bags[last.memory.bag].allowedKinds = <<>>
        \/ last.memory.kind \in Range(bags[last.memory.bag].allowedKinds)

\* C4: a call whose embedding fails throws, has called createEmbedding once
\* and no more, and none of its steps (the one that sends the text, the one
\* that takes the failure) changes a row of bags, memories or vectors.
C4_EmbedFailureChangesNothing ==
  [][/\ (Starts /\ started' \in DOMAIN inflight') => UNCHANGED dbVars
     /\ (last'.n # last.n /\ ~last'.ok /\ last'.err = "embedding failed") =>
          /\ UNCHANGED dbVars
          /\ last'.op \in {"store", "update", "recall"}
          /\ last'.embed = 1
          /\ last'.n \notin DOMAIN inflight']_vars

\* An update of an existing memory has failed on the embedding, later than
\* the memory's last write.
C4_Witness ==
  /\ last.op = "update" /\ ~last.ok /\ last.err = "embedding failed"
  /\ last.in.id \in DOMAIN memories
  /\ clock > memories[last.in.id].createdAt

\* The inputs C5 names, in the state the call finds.
C5_Invalid(op, input) ==
  \/ /\ op = "store"
     /\ \/ Trim(input.bag) = <<>>
        \/ Trim(input.content) = <<>>
        \/ input.kind \notin {"summary", "preference", "constraint", "decision", "fact", "note"}
        \/ Trim(input.bag) \notin DOMAIN bags
        \/ /\ bags[Trim(input.bag)].allowedKinds # <<>>
           /\ input.kind \notin Range(bags[Trim(input.bag)].allowedKinds)
  \/ op = "update" /\ input.id \notin DOMAIN memories
  \/ op = "recall" /\ Trim(input.query) = <<>>

\* C5: a store, update or recall with an invalid input, a policy violation
\* or a missing target throws at once, without a call of createEmbedding
\* and without a change of any row.
C5_RejectedBeforeEmbedding ==
  [][(Starts /\ C5_Invalid(Started.op, Started.in)) =>
       /\ started' \notin DOMAIN inflight'
       /\ last'.n = started' /\ ~last'.ok
       /\ last'.embed = 0
       /\ UNCHANGED dbVars]_vars

\* A store was rejected for its kind by a bag that holds a memory.
C5_Witness ==
  /\ last.op = "store" /\ ~last.ok /\ last.err = "kind is not allowed in bag"
  /\ MemoriesOf(Trim(last.in.bag)) # {}

\* C6: the record a store persists and returns is the sanitized input:
\* trimmed bag and content, the kind, importance clamped to 1..5 (3 when
\* omitted), the trimmed non-empty tags without duplicates, createdAt =
\* updatedAt, lastAccessedAt null.
C6_StoredIsSanitized ==
  (last.op = "store" /\ last.ok) =>
     LET x == last.in
         r == last.memory
     IN /\ r.id \in DOMAIN memories /\ parseRecord(memories[r.id]) = r
        /\ r.bag = Trim(x.bag)
        /\ r.kind = x.kind
        /\ r.content = Trim(x.content)
        /\ r.importance = (IF x.importance = None THEN 3
                           ELSE Max(1, Min(5, Get(x.importance))))
        /\ r.tags = Dedupe(TrimTags(OrElse(x.tags, <<>>)))
        /\ r.createdAt = r.updatedAt
        /\ r.lastAccessedAt = Null

\* C7: a successful update with tags and without content leaves the content
\* and the whole vector row as they were and calls createEmbedding never; an
\* update with content of a memory that exists calls it once, on the trimmed
\* content, and the transaction of a successful one writes that content and
\* the vector row of its embedding.
C7_ReembedOnlyOnContent ==
  [][/\ \A n \in DOMAIN inflight' :
          inflight'[n].op = "update" =>
             /\ inflight'[n].in.content # None
             /\ inflight'[n].next.content = Trim(Get(inflight'[n].in.content))
             /\ inflight'[n].embed = 1
     /\ (Returns("update") /\ last'.in.content # None) =>
          last'.embed = (IF ~last'.ok /\ last'.err = "memory not found" THEN 0 ELSE 1)
     /\ (Returns("update") /\ last'.ok) =>
          LET input == last'.in
              id == input.id
          IN /\ (input.tags # None /\ input.content = None) =>
                  /\ memories'[id].content = memories[id].content
                  /\ vectors'[id] = vectors[id]
                  /\ last'.embed = 0
             /\ input.content # None =>
                  /\ last'.embed = 1
                  /\ memories'[id].content = Trim(Get(input.content))
                  /\ vectors'[id].embedding = Embed(Trim(Get(input.content)))
                  /\ vectors'[id].dim = Len(vectors'[id].embedding)
                  /\ vectors'[id].norm = vectorNorm(vectors'[id].embedding)
                  /\ vectors'[id].model = embeddingModel]_vars

\* An update with content has returned and the vector is no longer the one
\* the store wrote.
C7_Witness ==
  /\ last.op = "update" /\ last.ok /\ last.in.content # None
  /\ last.in.id \in DOMAIN vectors
  /\ vectors[last.in.id].embedding = <<4, 3>>
  /\ vectors[last.in.id].updatedAt > vectors[last.in.id].createdAt

\* C8: deleteMemory of an existing id removes the record and its vector and
\* returns deleted = true; of any other id it returns deleted = false, throws
\* nothing and changes nothing; and an id that is gone never comes back, so
\* every later deleteMemory of it returns false.
C8_DeleteIdempotent ==
  [][/\ Returns("deleteMemory") =>
          LET id == last'.in
          IN /\ last'.ok
             /\ last'.deleted = (id \in DOMAIN memories)
             /\ id \notin DOMAIN memories' /\ id \notin DOMAIN vectors'
             /\ OtherMemoriesSame(id) /\ OtherVectorsSame(id)
             /\ bags' = bags
     /\ \A id \in 1..(nextId - 1) :
          id \notin DOMAIN memories => id \notin DOMAIN memories']_vars

\* A deleteMemory of an id that a store had issued returned false; no bag was
\* deleted, so it was an earlier deleteMemory that removed the record.
C8_Witness ==
  /\ last.op = "deleteMemory" /\ ~last.deleted
  /\ last.in < nextId
  /\ bags = defaultBags

\* C9: deleteBag of a name that no bag has returns deleted = false and
\* deletedMemories = 0 and changes nothing, protected name or not; of an
\* existing protected bag without allowSystem it throws; of a bag that owns a
\* memory without force it throws; a throw changes nothing.
C9_DeleteBagGuards ==
  [][Returns("deleteBag") =>
       LET input == last'.in
           name == Trim(input.name)
           protected == name \in {<<"session-summaries">>, <<"coding-style">>,
                                  <<"life-preferences">>}
       IN /\ (name # <<>> /\ name \notin DOMAIN bags) =>
               /\ last'.ok /\ ~last'.deleted /\ last'.deletedMemories = 0
               /\ UNCHANGED dbVars
          /\ (name \in DOMAIN bags /\ protected /\ ~input.allowSystem) => ~last'.ok
          /\ (name \in DOMAIN bags /\ ~input.force
                /\ \E i \in DOMAIN memories : memories[i].bag = name) => ~last'.ok
          /\ ~last'.ok => UNCHANGED dbVars]_vars

\* A deleteBag of a protected name, without allowSystem, found no such bag.
C9_Witness ==
  /\ last.op = "deleteBag" /\ last.ok /\ ~last.deleted
  /\ Trim(last.in.name) \in PROTECTED_BAGS
  /\ ~last.in.allowSystem

\* C10: a deleteBag that passes its guards removes in one step the policy,
\* the memories of the bag and their vectors and nothing else, and returns
\* deleted = true with the number of memories it removed; a bag without
\* memories needs no force.
C10_DeleteBagRemovesAll ==
  [][Returns("deleteBag") =>
       LET input == last'.in
           name == Trim(input.name)
           owned == {i \in DOMAIN memories : memories[i].bag = name}
       IN (/\ name \in DOMAIN bags
           /\ name \in PROTECTED_BAGS => input.allowSystem
           /\ owned # {} => input.force) =>
             /\ last'.ok /\ last'.deleted
             /\ last'.deletedMemories = Cardinality(owned)
             /\ DOMAIN bags' = DOMAIN bags \ {name}
             /\ \A b \in DOMAIN bags' : bags'[b] = bags[b]
             /\ DOMAIN memories' = DOMAIN memories \ owned
             /\ DOMAIN vectors' = DOMAIN vectors \ owned
             /\ \A i \in DOMAIN memories' :
                  /\ memories'[i] = memories[i]
                  /\ memories'[i].bag # name
                  /\ vectors'[i] = vectors[i]]_vars

\* A forced deleteBag has removed a bag together with a memory of it.
C10_Witness ==
  /\ last.op = "deleteBag" /\ last.ok /\ last.deleted
  /\ last.deletedMemories > 0
  /\ last.in.force

\* C11: every policy is stored under its own name, one row per name; an
\* upsertBag leaves exactly one row for its name and touches no other row;
\* on a name that exists it changes neither name nor createdAt, and the
\* defaultTopK it leaves is the clamped value its input gives.
C11_UpsertKeepsIdentity ==
  [][/\ \A b \in DOMAIN bags' : bags'[b].name = b
     /\ Returns("upsertBag") =>
          LET input == last'.in
              name == input.name
          IN /\ last'.ok
             /\ DOMAIN bags' = DOMAIN bags \cup {name}
             /\ \A b \in DOMAIN bags \ {name} : bags'[b] = bags[b]
             /\ last'.bag = bags'[name]
             /\ name \in DOMAIN bags =>
                  /\ bags'[name].name = bags[name].name
                  /\ bags'[name].createdAt = bags[name].createdAt
             /\ input.defaultTopK # None =>
                  bags'[name].defaultTopK = Max(1, Min(100, Get(input.defaultTopK)))]_vars

\* coding-style was upserted with defaultTopK 0 (with the description "d")
\* and then, later than its creation, with defaultTopK 5.
C11_Witness ==
  /\ last.op = "upsertBag" /\ last.in.name = CodingStyle
  /\ last.in.defaultTopK = Some(5)
  /\ bags[CodingStyle].description = Some("d")
  /\ bags[CodingStyle].defaultTopK = 5
  /\ bags[CodingStyle].createdAt = 0
  /\ bags[CodingStyle].updatedAt = 1

\* C12: an upsertBag on an existing policy leaves in every field its input
\* provides the provided value (a number clamped to the field's range, the
\* kinds normalized), description = null and allowedKinds = [] included, and
\* in every field its input omits the value the policy had; an upsertBag that
\* creates the policy gives the omitted fields defaultTopK 8,
\* recencyHalfLifeDays 30, importanceWeight 0.35 and allowedKinds [].
C12_UpsertOverwritesProvided ==
  [][Returns("upsertBag") =>
       LET input == last'.in
           new == bags'[input.name]
           has == input.name \in DOMAIN bags
           old == bags[input.name]
       IN /\ input.description # None => new.description = Get(input.description)
          /\ input.defaultTopK # None =>
               new.defaultTopK = Max(1, Min(100, Get(input.defaultTopK)))
          /\ input.recencyHalfLifeDays # None =>
               new.recencyHalfLifeDays = Max(1, Min(3650, Get(input.recencyHalfLifeDays)))
          /\ input.importanceWeight # None =>
               new.importanceWeight = Max(0, Min(2000, Get(input.importanceWeight)))
          /\ input.allowedKinds # None =>
               new.allowedKinds = Dedupe(SelectKinds(Get(input.allowedKinds),
                  {"summary", "preference", "constraint", "decision", "fact", "note"}))
          /\ (has /\ input.description = None) => new.description = old.description
          /\ (has /\ input.defaultTopK = None) => new.defaultTopK = old.defaultTopK
          /\ (has /\ input.recencyHalfLifeDays = None) =>
               new.recencyHalfLifeDays = old.recencyHalfLifeDays
          /\ (has /\ input.importanceWeight = None) =>
               new.importanceWeight = old.importanceWeight
          /\ (has /\ input.allowedKinds = None) => new.allowedKinds = old.allowedKinds
          /\ (~has /\ input.defaultTopK = None) => new.defaultTopK = 8
          /\ (~has /\ input.recencyHalfLifeDays = None) => new.recencyHalfLifeDays = 30
          /\ (~has /\ input.importanceWeight = None) => new.importanceWeight = 350
          /\ (~has /\ input.allowedKinds = None) => new.allowedKinds = <<>>]_vars

\* C13: in every reachable state every policy has defaultTopK in 1..100,
\* recencyHalfLifeDays in 1..3650 and importanceWeight in 0..2.
C13_PolicyInRange ==
  \A b \in DOMAIN bags :
     /\ bags[b].defaultTopK >= 1 /\ bags[b].defaultTopK <= 100
     /\ bags[b].recencyHalfLifeDays >= 1 /\ bags[b].recencyHalfLifeDays <= 3650
     /\ bags[b].importanceWeight >= 0 /\ bags[b].importanceWeight <= 2000

\* An upsertBag with defaultTopK 0, recencyHalfLifeDays 0 and
\* importanceWeight 2.5 has written the policy.
C13_Witness ==
  /\ last.op = "upsertBag"
  /\ last.in.defaultTopK = Some(0)
  /\ last.in.recencyHalfLifeDays = Some(0)
  /\ last.in.importanceWeight = Some(2500)
  /\ bags[last.in.name].defaultTopK = 1
  /\ bags[last.in.name].recencyHalfLifeDays = 1
  /\ bags[last.in.name].importanceWeight = 2000

\* The ids of the memories a recall returned.
ReturnedIds(ranked) == {ranked[k].memory.id : k \in DOMAIN ranked}

\* The tags a request asks for: its non-blank tags, trimmed, in lower case.
RequestedTags(input) ==
  {toLowerCase(Trim(t)) : t \in Range(OrElse(input.tags, <<>>))} \ {<<>>}

\* C14: whenever a recall whose request asks for tags returns, every memory
\* it returns has a tag that equals one of those tags when case is ignored.
C14_TagFilterIsHard ==
  [][(Returns("recall") /\ last'.ok /\ RequestedTags(last'.in) # {}) =>
       \A k \in DOMAIN last'.ranked :
          \E m \in Range(last'.ranked[k].memory.tags) :
             toLowerCase(m) \in RequestedTags(last'.in)]_vars

\* A recall with tags returned a memory and left out a row of its query
\* that has no tag at all, although topK had room for it.
C14_Witness ==
  /\ last.op = "recall" /\ last.ok
  /\ RequestedTags(last.in) # {}
  /\ Len(last.ranked) > 0
  /\ Len(last.ranked) < last.topK
  /\ \E k \in DOMAIN last.rows :
        /\ last.rows[k] \notin ReturnedIds(last.ranked)
        /\ last.rows[k] \in DOMAIN memories
        /\ memories[last.rows[k]].tags = <<>>

\* The step is the second half of a recall, the one that runs after the
\* embedding of the query has arrived.
RecallRuns ==
  /\ Returns("recall")
  /\ last'.embed = 1
  /\ last'.ok \/ last'.err # "embedding failed"

\* C15: every memory a recall returns has expiresAt null or later than the
\* time of the recall; its bag is the very name the request gives, if it
\* gives one; its kind is one of the kinds the request gives, if it gives
\* any.  A recall that names a bag without a policy returns the empty list
\* and does not throw.
C15_RecallFilters ==
  [][/\ (Returns("recall") /\ last'.ok) =>
          \A k \in DOMAIN last'.ranked :
             LET m == last'.ranked[k].memory
                 input == last'.in
             IN /\ m.expiresAt = Null \/ Get(m.expiresAt) > clock'
                /\ (input.bag # None /\ Get(input.bag) # <<>>) => m.bag = Get(input.bag)
                /\ (input.kinds # None /\ Get(input.kinds) # <<>>) =>
                      \E j \in DOMAIN Get(input.kinds) : Get(input.kinds)[j] = m.kind
     /\ (/\ RecallRuns
         /\ last'.in.bag # None /\ Get(last'.in.bag) # <<>>
         /\ Get(last'.in.bag) \notin DOMAIN bags) =>
          /\ last'.ok
          /\ last'.ranked = <<>>]_vars

\* A recall with a bag and kinds returned a memory and stamped it, while a
\* memory of that bag and of one of those kinds that had expired by then
\* stayed out of the rows of its query.
C15_Witness ==
  /\ last.op = "recall" /\ last.ok
  /\ last.in.bag # None /\ last.in.kinds # None
  /\ Len(last.ranked) > 0
  /\ \E i \in DOMAIN memories :
        /\ memories[i].bag = Get(last.in.bag)
        /\ memories[i].kind \in Range(Get(last.in.kinds))
        /\ memories[i].expiresAt # Null
        /\ \E k \in DOMAIN last.ranked :
              /\ last.ranked[k].memory.id \in DOMAIN memories
              /\ memories[last.ranked[k].memory.id].lastAccessedAt # Null
              /\ Get(memories[i].expiresAt)
                   <= Get(memories[last.ranked[k].memory.id].lastAccessedAt)
        /\ \A k \in DOMAIN last.rows : last.rows[k] # i

\* The topK the request and the policies of the state call for.
C16_TopK(input) ==
  LET chosen == IF input.topK # None THEN Get(input.topK)
                ELSE IF input.bag # None /\ Get(input.bag) \in DOMAIN bags
                     THEN bags[Get(input.bag)].defaultTopK
                     ELSE 8
  IN IF chosen < 1 THEN 1 ELSE IF chosen > 100 THEN 100 ELSE chosen

\* C16: a recall that returns works with the topK of its request, else the
\* defaultTopK of the policy of the bag it names, else 8, clamped to 1..100,
\* and returns no more items than that: at most 1 for a topK of 0 or less,
\* never more than 100.
C16_AtMostTopK ==
  [][(Returns("recall") /\ last'.ok) =>
       /\ last'.topK = C16_TopK(last'.in)
       /\ Len(last'.ranked) <= C16_TopK(last'.in)
       /\ Len(last'.ranked) <= 100
       /\ (last'.in.topK # None /\ Get(last'.in.topK) <= 0) => Len(last'.ranked) <= 1]_vars

\* A recall without topK named a bag whose policy has defaultTopK 1 and
\* returned one memory.
C16_Witness ==
  /\ last.op = "recall" /\ last.ok
  /\ last.in.topK = None
  /\ last.in.bag # None /\ Get(last.in.bag) \in DOMAIN bags
  /\ bags[Get(last.in.bag)].defaultTopK = 1
  /\ last.topK = 1
  /\ Len(last.ranked) = 1

\* The place of a memory among the rows the query of a recall returned.
RowOf(rows, id) == CHOOSE j \in DOMAIN rows : rows[j] = id

\* The rows of a recall's query that pass its tag filter.
Survivors(input, rows) ==
  {rows[j] : j \in {i \in DOMAIN rows :
      \/ RequestedTags(input) = {}
      \/ \E m \in Range(memories[rows[i]].tags) :
            toLowerCase(m) \in RequestedTags(input)}}

\* C17: the list a recall returns is in descending order of score; of two
\* items with the same score the one that comes first in the rows of the
\* query, which are in descending order of createdAt, comes first; the list
\* holds min(topK, survivors) of the rows that passed the filters, and a
\* survivor left out has no higher score than any item returned and, at an
\* equal score, comes later in the rows.
C17_RankedByScore ==
  [][(Returns("recall") /\ last'.ok) =>
       LET input == last'.in
           ranked == last'.ranked
           rows == last'.rows
           alive == Survivors(input, rows)
           ScoreOf(id) == Scored(id, Embed(Trim(input.query)), parseTags(input.tags),
                                 clock').score
       IN /\ \A j, k \in DOMAIN rows :
               j < k => memories[rows[j]].createdAt >= memories[rows[k]].createdAt
          /\ \A j, k \in DOMAIN ranked :
               j < k =>
                 /\ ranked[j].score >= ranked[k].score
                 /\ ranked[j].memory.id # ranked[k].memory.id
                 /\ ranked[j].score = ranked[k].score =>
                      /\ RowOf(rows, ranked[j].memory.id) < RowOf(rows, ranked[k].memory.id)
                      /\ ranked[j].memory.createdAt >= ranked[k].memory.createdAt
          /\ ReturnedIds(ranked) \subseteq alive
          /\ Len(ranked) = Min(last'.topK, Cardinality(alive))
          /\ \A k \in DOMAIN ranked : ranked[k].score = ScoreOf(ranked[k].memory.id)
          /\ \A id \in alive \ ReturnedIds(ranked) :
               \A k \in DOMAIN ranked :
                  /\ ScoreOf(id) <= ranked[k].score
                  /\ ScoreOf(id) = ranked[k].score =>
                       RowOf(rows, ranked[k].memory.id) < RowOf(rows, id)]_vars

\* A recall whose query returned two rows returned the second of them alone:
\* the score put it before the first, and topK cut the first.
C17_Witness ==
  /\ last.op = "recall" /\ last.ok
  /\ Len(last.rows) = 2
  /\ last.topK = 1
  /\ Len(last.ranked) = 1
  /\ last.ranked[1].memory.id = last.rows[2]
  /\ last.in.tags = None

\* C18: when a recall returns, the row of every memory it returns is the row
\* of before with lastAccessedAt set to the time of the recall, and every
\* other memory row, every vector row and every policy is as before.
C18_StampsReturnedOnly ==
  [][(Returns("recall") /\ last'.ok) =>
       /\ DOMAIN memories' = DOMAIN memories
       /\ \A id \in DOMAIN memories :
            IF id \in ReturnedIds(last'.ranked)
            THEN /\ memories'[id].lastAccessedAt = Some(clock')
                 /\ memories'[id] =
                      [memories[id] EXCEPT !.lastAccessedAt = memories'[id].lastAccessedAt]
            ELSE memories'[id] = memories[id]
       /\ ReturnedIds(last'.ranked) \subseteq DOMAIN memories
       /\ vectors' = vectors
       /\ bags' = bags]_vars

\* A recall has stamped the memory it returned, while a row of its query
\* that topK cut was never stamped.
C18_Witness ==
  /\ last.op = "recall" /\ last.ok
  /\ Len(last.ranked) = last.topK
  /\ \A k \in DOMAIN last.ranked :
        /\ last.ranked[k].memory.id \in DOMAIN memories
        /\ memories[last.ranked[k].memory.id].lastAccessedAt # Null
  /\ \E k \in DOMAIN last.rows :
        /\ last.rows[k] \notin ReturnedIds(last.ranked)
        /\ last.rows[k] \in DOMAIN memories
        /\ memories[last.rows[k]].lastAccessedAt = Null

\* C19: a recall whose stamp of one returned row fails still returns its
\* ranked list, and every other row it returns is stamped with the time of
\* the recall.
C19_StampFailureNotFatal ==
  [][RecallRuns =>
       /\ last'.ok
       /\ \A k \in DOMAIN last'.ranked :
            (last'.ok \/ k # last'.failAt) =>
               memories'[last'.ranked[k].memory.id].lastAccessedAt = Some(clock')]_vars

\* C20: the tagBoost of every item a recall returns is min(0.2, 0.06 * n),
\* n being the number of distinct tags, case ignored, that the query tags
\* and the memory's tags share; it is 0 when n is 0 and never above 0.2.
C20_TagBoostIsSetOverlap ==
  [][(Returns("recall") /\ last'.ok) =>
       \A k \in DOMAIN last'.ranked :
          LET queryTags == parseTags(last'.in.tags)
              memoryTags == last'.ranked[k].memory.tags
              shared == {toLowerCase(t) : t \in Range(queryTags)}
                          \cap {toLowerCase(t) : t \in Range(memoryTags)}
              n == Cardinality(shared)
              boost == last'.ranked[k].scoreBreakdown.tagBoost
          IN /\ boost = (IF 60000 * n < 200000 THEN 60000 * n ELSE 200000)
             /\ n = 0 => boost = 0
             /\ boost <= 200000]_vars

\* ---------------------------------------------------------------------
\* The scoring functions on their own
\* ---------------------------------------------------------------------
\* src/memory/scoring.ts exports its functions, and tests/scoring.test.ts
\* applies them to arguments of its own choice.  SpecScoring applies each of
\* them to every argument of a bounded set; `last` holds the application and
\* its result, and the database stays as the migration left it.

\* The latest instant, in units of the clock, of a timestamp or of a reading
\* of the clock handed to recencyBoost.
MaxInstant == 6

ScoringInstants == 0..MaxInstant

\* Half-lives in days; the clock's unit is 1/4, 1/2, 1 and 2 of the positive
\* ones.
ScoringHalfLives == {-30, 0, 1260, 2520, 5040, 10080}

\* Vectors whose norm is a whole number (0, 5, 10, 3, 7), of three lengths.
ScoringVectors ==
  { <<>>, <<0>>, <<0, 0>>, <<0, 0, 0>>, <<3, 4>>, <<4, 3>>, <<5, 0>>,
    <<-3, 4>>, <<6, 8>>, <<1, 2, 2>>, <<2, 3, 6>> }

ScoringNorms == {None, Some(0), Some(5), Some(10)}

Applied(op, input, result) ==
  [n |-> 0, op |-> op, in |-> input, ok |-> TRUE, result |-> result]

ApplyVectorNorm(values) ==
  /\ last' = Applied("vectorNorm", [values |-> values], vectorNorm(values))
  /\ UNCHANGED <<bags, memories, vectors, clock, nextId, started, inflight>>

ApplyCosineSimilarity(a, b, bNorm) ==
  /\ last' = Applied("cosineSimilarity", [a |-> a, b |-> b, bNorm |-> bNorm],
                     cosineSimilarity(a, b, bNorm))
  /\ UNCHANGED <<bags, memories, vectors, clock, nextId, started, inflight>>

ApplyRecencyBoost(createdAt, halfLifeDays, now) ==
  /\ last' = Applied("recencyBoost",
                     [createdAt |-> createdAt, halfLifeDays |-> halfLifeDays,
                      now |-> now],
                     recencyBoost(createdAt, halfLifeDays, now))
  /\ UNCHANGED <<bags, memories, vectors, clock, nextId, started, inflight>>

NextScoring ==
  \/ \E values \in ScoringVectors : ApplyVectorNorm(values)
  \/ \E a \in ScoringVectors, b \in ScoringVectors, bNorm \in ScoringNorms :
       ApplyCosineSimilarity(a, b, bNorm)
  \/ \E createdAt \in ScoringInstants \cup {NaT}, halfLifeDays \in ScoringHalfLives,
        now \in ScoringInstants :
       ApplyRecencyBoost(createdAt, halfLifeDays, now)

SpecScoring == Init /\ [][NextScoring]_vars

\* Two successive applications of recencyBoost at the same reading of the
\* clock, with the same positive half-life, to two timestamps that the
\* reading has reached: the first the older, the second the newer.
OlderThenNewer ==
  /\ last.op = "recencyBoost"
  /\ last'.op = "recencyBoost"
  /\ last'.in.now = last.in.now
  /\ last'.in.halfLifeDays = last.in.halfLifeDays
  /\ last.in.halfLifeDays > 0
  /\ last.in.createdAt # NaT
  /\ last.in.createdAt < last'.in.createdAt
  /\ last'.in.createdAt <= last.in.now

\* C21: for a fixed half-life h > 0 and a fixed current time, of two
\* timestamps not later than the current time the later one gets the
\* strictly larger recency boost, also when the later one is the current
\* instant itself; and the boost of the current instant is at most 0.2.
C21_RecencyStrictlyDecreasing ==
  [][ /\ OlderThenNewer => last'.result > last.result
      /\ ( /\ last'.op = "recencyBoost"
           /\ last'.in.createdAt = last'.in.now
           /\ last'.in.halfLifeDays > 0 ) => last'.result <= 200000 ]_vars

\* The norm of a vector of ScoringVectors, found without a square root: the
\* whole number whose square is the sum of the squares.
WholeNorm(v) == CHOOSE r \in 0..SumSquares(v) : r * r = SumSquares(v)

\* q is the quotient num / den in millionths, rounded down (den > 0).
IsQuotient(q, num, den) == q * den <= num * 1000000 /\ num * 1000000 < (q + 1) * den

\* C22: cosineSimilarity(a, b, normB) is -1 when a and b differ in length,
\* whatever their entries; otherwise 0 when the norm of a is 0 or the norm
\* used for b (normB when given, else the computed one) is 0; otherwise
\* dot(a, b) divided by the product of the norm of a and the norm used for
\* b, so that cosineSimilarity(v, v) is 1 for a non-zero v.  vectorNorm is
\* never negative and vectorNorm([3, 4]) is 5.
C22_CosineAndNorm ==
  /\ last.op = "cosineSimilarity" =>
       LET a == last.in.a
           b == last.in.b
           used == IF IsSome(last.in.bNorm) THEN Get(last.in.bNorm) ELSE WholeNorm(b)
       IN /\ Len(a) # Len(b) => last.result = -1000000
          /\ (Len(a) = Len(b) /\ (WholeNorm(a) = 0 \/ used = 0)) => last.result = 0
          /\ (Len(a) = Len(b) /\ WholeNorm(a) # 0 /\ used # 0) =>
               IsQuotient(last.result, Dot(a, b), WholeNorm(a) * used)
          /\ (a = b /\ WholeNorm(a) # 0 /\ last.in.bNorm = None) => last.result = 1000000
  /\ last.op = "vectorNorm" =>
       /\ last.result >= 0
       /\ last.result * last.result = SumSquares(last.in.values)
       /\ last.in.values = <<3, 4>> => last.result = 5

\* cosineSimilarity was applied to two non-zero vectors of one length with a
\* norm for b that is not the norm of b, and the quotient used the given one.
C22_Witness ==
  /\ last.op = "cosineSimilarity"
  /\ last.in.a = <<3, 4>>
  /\ last.in.b = <<4, 3>>
  /\ last.in.bNorm = Some(10)
  /\ last.result = 480000

\* C23: the vector kept for a memory is the embedding of the content the
\* memory's record holds, with the norm and the dimension of that embedding,
\* in every state: whatever stores, updates and deletes have begun, waited
\* and finished in whatever order, no record holds the content of one update
\* next to the embedding of another.
C23_VectorOfCurrentContent ==
  \A id \in DOMAIN vectors :
    /\ id \in DOMAIN memories
    /\ vectors[id].embedding = Embed(memories[id].content)
    /\ vectors[id].norm = vectorNorm(Embed(memories[id].content))
    /\ vectors[id].dim = Len(Embed(memories[id].content))

\* A content update has just committed while an update of the same memory
\* to another content, begun before it, is still waiting for its embedding.
C23_Witness ==
  /\ last.op = "update"
  /\ last.ok
  /\ last.in.content # None
  /\ memories[last.in.id].content = Trim(Get(last.in.content))
  /\ \E m \in DOMAIN inflight :
       /\ m < last.n
       /\ inflight[m].op = "update"
       /\ inflight[m].in.id = last.in.id
       /\ inflight[m].next.content # memories[last.in.id].content

\* The limit of the query of a recall: the candidateLimit of the request,
\* else 600, lowered to 5000 if it is more, then raised to topK if it is less.
C24_Limit(input, topK) ==
  LET given == IF input.candidateLimit # None THEN Get(input.candidateLimit) ELSE 600
      lowered == IF given > 5000 THEN 5000 ELSE given
  IN IF lowered < topK THEN topK ELSE lowered

\* The memories that pass the expiry, bag and kind filters of a request at
\* time now.
C24_Passing(input, now) ==
  {i \in DOMAIN memories :
     /\ memories[i].expiresAt = Null \/ Get(memories[i].expiresAt) > now
     /\ (input.bag # None /\ Get(input.bag) # <<>>) => memories[i].bag = Get(input.bag)
     /\ (input.kinds # None /\ Get(input.kinds) # <<>>) =>
           \E j \in DOMAIN Get(input.kinds) : Get(input.kinds)[j] = memories[i].kind}

\* C24: the rows a recall scores are min(candidateLimit, passing) of the
\* memories that pass its expiry, bag and kind filters, none of them created
\* earlier than a passing memory left out, where candidateLimit is the
\* request's value, else the default, lowered to at most 5000 and then raised
\* to at least topK; the tag filter works on these rows only, so that the
\* items returned are min(topK, matching rows) of the tag-matching rows and
\* a tag-matching memory outside the rows is never returned.
C24_CandidatesAreNewest ==
  [][(Returns("recall") /\ last'.ok) =>
       LET input == last'.in
           rows == last'.rows
           limit == C24_Limit(input, last'.topK)
           passing == C24_Passing(input, clock')
           chosen == {rows[j] : j \in DOMAIN rows}
       IN /\ chosen \subseteq passing
          /\ \A j, k \in DOMAIN rows : j # k => rows[j] # rows[k]
          /\ Len(rows) = Min(limit, Cardinality(passing))
          /\ \A i \in chosen, j \in passing \ chosen :
                memories[i].createdAt >= memories[j].createdAt
          /\ ReturnedIds(last'.ranked) \subseteq Survivors(input, rows)
          /\ Len(last'.ranked) = Min(last'.topK, Cardinality(Survivors(input, rows)))]_vars

\* A recall with a tag, topK 1 and candidateLimit 0 scored one row, the
\* newest passing memory, which lacks the tag, and returned nothing, while an
\* older passing memory carries the tag.
C24_Witness ==
  /\ last.op = "recall" /\ last.ok
  /\ last.in.candidateLimit = Some(0)
  /\ last.topK = 1
  /\ Len(last.rows) = 1
  /\ last.ranked = <<>>
  /\ \E i \in DOMAIN memories :
       /\ i # last.rows[1]
       /\ memories[i].createdAt < memories[last.rows[1]].createdAt
       /\ memories[i].expiresAt = Null
       /\ \E m \in Range(memories[i].tags) : toLowerCase(m) \in RequestedTags(last.in)

\* C25: the score of every item a recall returns is the plain sum of the
\* four parts of its breakdown; its recencyBoost is computed with the
\* half-life, and its importanceBoost with the weight, of the policy of the
\* bag the memory is in, and importanceBoost is the importance, held within
\* 1..5, divided by 5 and multiplied by that weight.
C25_ScoreIsSumUnderOwnPolicy ==
  [][(Returns("recall") /\ last'.ok) =>
       \A k \in DOMAIN last'.ranked :
          LET item == last'.ranked[k]
              m == item.memory
              parts == item.scoreBreakdown
              clamped == IF m.importance < 1 THEN 1
                         ELSE IF m.importance > 5 THEN 5 ELSE m.importance
          IN /\ item.score = parts.similarity + parts.recencyBoost
                               + parts.importanceBoost + parts.tagBoost
             /\ m.bag \in DOMAIN bags
             /\ parts.importanceBoost * 5 = clamped * bags[m.bag].importanceWeight * 1000
             /\ parts.recencyBoost =
                  recencyBoost(m.createdAt, bags[m.bag].recencyHalfLifeDays, clock')]_vars

\* A recall that names no bag returned a memory older than the recall whose
\* bag has a half-life and a weight other than the hardcoded 30 and 0.35,
\* with an importance above 1.
C25_Witness ==
  /\ last.op = "recall" /\ last.ok
  /\ last.in.bag = None
  /\ \E k \in DOMAIN last.ranked :
       LET m == last.ranked[k].memory
       IN /\ m.bag \in DOMAIN bags
          /\ bags[m.bag].importanceWeight # 350
          /\ bags[m.bag].recencyHalfLifeDays # 30
          /\ m.importance > 1
          /\ m.createdAt < clock
          /\ last.ranked[k].scoreBreakdown.recencyBoost > 0

\* C26: when an update returns a record, the row's updatedAt is the time
\* the update read from the clock, which is not later than the time of its
\* return, whichever fields the request holds, none included; the row's id,
\* bag, kind, createdAt and lastAccessedAt are as before, and so is every
\* row and every vector of every other memory.
C26_UpdateStampsAndFrames ==
  [][(Returns("update") /\ last'.ok) =>
       LET id == last'.in.id
           read == IF last'.n \in DOMAIN inflight
                   THEN inflight[last'.n].next.now ELSE clock'
       IN /\ id \in DOMAIN memories /\ id \in DOMAIN memories'
          /\ memories'[id].updatedAt = read
          /\ read <= clock'
          /\ last'.memory.updatedAt = read
          /\ memories'[id].id = memories[id].id
          /\ memories'[id].bag = memories[id].bag
          /\ memories'[id].kind = memories[id].kind
          /\ memories'[id].createdAt = memories[id].createdAt
          /\ memories'[id].lastAccessedAt = memories[id].lastAccessedAt
          /\ OtherMemoriesSame(id)
          /\ OtherVectorsSame(id)]_vars

\* An update that holds no field returned the record of a memory created
\* earlier, stamped with the later time, next to another memory.
C26_Witness ==
  /\ last.op = "update" /\ last.ok
  /\ last.in.content = None /\ last.in.tags = None /\ last.in.importance = None
  /\ last.in.source = None /\ last.in.expiresAt = None
  /\ memories[last.in.id].updatedAt > memories[last.in.id].createdAt
  /\ DOMAIN memories # {last.in.id}

\* C27: in every state the bag of every memory is the name of a policy
\* that exists: a store whose bag is gone when its insert runs, deleted
\* while the store waited for the embedding, persists nothing, and deleteBag
\* leaves no memory of the bag it removes.  So the policy recall looks up
\* for a memory is always there and the hardcoded one is never taken.
C27_BagOfMemoryExists ==
  \A i \in DOMAIN memories :
    /\ memories[i].bag \in DOMAIN bags
    /\ getBagPolicy(memories[i].bag) # None
    /\ ScoringPolicy(parseRecord(memories[i])) = bags[memories[i].bag]

\* A store that passed its checks and waited has failed at its insert: its
\* bag is no longer there, and no memory of that bag exists.
C27_Witness ==
  /\ last.op = "store"
  /\ ~last.ok
  /\ last.err = "FOREIGN KEY constraint failed"
  /\ last.embed = 1
  /\ Trim(last.in.bag) \notin DOMAIN bags
  /\ \A i \in DOMAIN memories : memories[i].bag # Trim(last.in.bag)

\* C28: an update with content that resumes after its memory was deleted,
\* by deleteMemory or by a forced deleteBag, throws, a not-found error
\* unless the embedding itself failed, and writes nothing: no record and no
\* vector with its id exists afterwards, and an id that has been given out
\* and is gone never comes back.
C28_UpdateOfDeletedFails ==
  [][/\ (/\ Returns("update")
         /\ last'.n \in DOMAIN inflight
         /\ last'.in.id \notin DOMAIN memories) =>
          /\ ~last'.ok
          /\ last'.err # "embedding failed" => last'.err = "memory not found after update"
          /\ last'.in.id \notin DOMAIN memories'
          /\ last'.in.id \notin DOMAIN vectors'
          /\ memories' = memories
          /\ vectors' = vectors
     /\ \A id \in 1..(nextId - 1) :
          /\ id \notin DOMAIN memories => id \notin DOMAIN memories'
          /\ id \notin DOMAIN vectors => id \notin DOMAIN vectors']_vars

\* An update with content waited, deleteMemory removed its memory, and the
\* update has failed: every bag is still there, the memory and its vector
\* are not.
C28_Witness ==
  /\ last.op = "update"
  /\ ~last.ok
  /\ last.err = "memory not found after update"
  /\ last.embed = 1
  /\ last.in.content # None
  /\ last.in.id < nextId
  /\ last.in.id \notin DOMAIN memories
  /\ last.in.id \notin DOMAIN vectors
  /\ DOMAIN bags = DOMAIN defaultBags

\* The same after a forced deleteBag removed the memory with its bag.
C28_WitnessForcedDeleteBag ==
  /\ last.op = "update"
  /\ ~last.ok
  /\ last.err = "memory not found after update"
  /\ last.in.id < nextId
  /\ last.in.id \notin DOMAIN memories
  /\ last.in.id \notin DOMAIN vectors
  /\ CodingStyle \notin DOMAIN bags

\* A text of the model without white space at either end.
C29_Trimmed(text) == text = <<>> \/ (text[1] # WS /\ text[Len(text)] # WS)

\* A memory row as the claim wants it.
C29_WellFormed(row) ==
  /\ row.content # <<>>
  /\ C29_Trimmed(row.content)
  /\ row.importance \in 1..5
  /\ row.kind \in {"summary", "preference", "constraint", "decision", "fact", "note"}
  /\ \A k \in DOMAIN row.tags : row.tags[k] # <<>> /\ C29_Trimmed(row.tags[k])

\* C29: after every step every persisted memory has a content that is not
\* empty and has no white space at its ends, an importance within 1..5, one
\* of the six kinds, and tags that are not empty and have no white space at
\* their ends; and an update whose content is empty or white space only
\* throws and leaves every row and every vector as it was.
C29_PersistedMemoriesWellFormed ==
  [][/\ \A i \in DOMAIN memories' : C29_WellFormed(memories'[i])
     /\ (/\ Returns("update")
         /\ last'.in.content # None
         /\ \A k \in DOMAIN Get(last'.in.content) : Get(last'.in.content)[k] = WS) =>
          /\ ~last'.ok
          /\ memories' = memories
          /\ vectors' = vectors]_vars

\* An update with a content of white space only, of a memory that exists,
\* has failed at the embedding of the empty text.
C29_Witness ==
  /\ last.op = "update"
  /\ ~last.ok
  /\ last.err = "Cannot embed empty text."
  /\ last.in.content = Some(<<WS>>)
  /\ last.in.id \in DOMAIN memories
  /\ C29_WellFormed(memories[last.in.id])

====
